---------------------------- MODULE Spec2Model ----------------------------
(***************************************************************************)
(* A model of the record query builder and statement compiler of           *)
(* dracory/customstore (record_query.go), and of the store operations that *)
(* run the compiled statements against the records table.                  *)
(*                                                                         *)
(* Strings the code inspects character by character (ids, payloads and     *)
(* payload needles) are sequences of one-character strings; strings that   *)
(* are only compared for equality (types, column names, errors) are TLA+   *)
(* strings.  Times are datetime values at one-second resolution, ordered   *)
(* as the "YYYY-MM-DD HH:MM:SS" strings the code compares.                 *)
(***************************************************************************)
EXTENDS Integers, Sequences, FiniteSets, TLC

VARIABLES
    q,              \* the recordQueryImplementation under construction
    last,           \* what the last call returned
    now,            \* the clock: carbon.Now(carbon.UTC).ToDateTimeString()
    calls,          \* number of setter calls made on q
    hist,           \* history: what the caller has passed to q's setters
    table,          \* the rows of the records table
    softDeleted,    \* history: ids of rows soft-deleted since their creation
    hardDeleted,    \* history: ids of rows hard-deleted and not created again
    record,         \* the record NewRecord built, with the options applied
    applied         \* history: the options applied to record, in order

vars ==
    <<q, last, now, calls, hist, table, softDeleted, hardDeleted, record, applied>>

---------------------------------------------------------------------------
(* Bounds and input domains *)

\* setter calls made on one query
MaxCalls == 3

\* the clock runs over 0..MaxTime
MaxTime == 2

Whitespace == {" "}

IdValues == {<<>>, <<" ">>, <<"a">>, <<"b">>}

IdListValues ==
    { <<>>,
      << <<"a">> >>,
      << <<"a">>, <<"b">> >>,
      << <<>> >>,
      << <<" ">> >>,
      << <<"a">>, <<>> >>,
      << <<" ">>, <<"b">> >>,
      << <<>>, <<" ">> >> }

TypeValues == {"", "person", "task"}

ColumnValues == {<<>>, <<"id">>, <<"id", "payload">>}

LimitValues == {1, 10}

OffsetValues == {0, 5}

OrderByValues == {"created_at"}

NeedleValues == {<<"a">>, <<"b">>, <<"_">>}

PayloadValues == {<<>>, <<"a">>, <<"b">>, <<"a", "b">>, <<"_">>}

---------------------------------------------------------------------------
(* Column names and the soft-delete sentinel *)

COLUMN_ID == "id"

COLUMN_RECORD_TYPE == "record_type"

COLUMN_PAYLOAD == "payload"

COLUMN_SOFT_DELETED_AT == "soft_deleted_at"

\* the far-future "not deleted" timestamp: later than every clock reading
MAX_DATETIME == MaxTime + 1

\* sb.ASC and sb.DESC
ASC == "asc"

DESC == "desc"

\* the limit imposed when an offset is set without a limit
DefaultLimit == 10

NoError == "nil"

---------------------------------------------------------------------------
(* String helpers *)

RECURSIVE TrimLeft(_)
TrimLeft(s) ==
    IF s # <<>> /\ Head(s) \in Whitespace THEN TrimLeft(Tail(s)) ELSE s

RECURSIVE TrimRight(_)
TrimRight(s) ==
    IF s # <<>> /\ s[Len(s)] \in Whitespace
    THEN TrimRight(SubSeq(s, 1, Len(s) - 1))
    ELSE s

\* strings.TrimSpace
TrimSpace(s) == TrimRight(TrimLeft(s))

\* strings.EqualFold on the order keywords
FoldCase(s) ==
    CASE s \in {"asc", "ASC", "Asc"} -> "asc"
      [] s \in {"desc", "DESC", "Desc"} -> "desc"
      [] OTHER -> s

EqualFold(a, b) == FoldCase(a) = FoldCase(b)

\* lo.Filter(ids, func(id) bool { return strings.TrimSpace(id) != "" })
FilterNonBlank(ids) == SelectSeq(ids, LAMBDA id : TrimSpace(id) # <<>>)

\* SQL LIKE: "%" matches any run of characters, "_" any one character
RECURSIVE LikeMatch(_, _)
LikeMatch(s, p) ==
    IF p = <<>> THEN s = <<>>
    ELSE IF Head(p) = "%"
         THEN LikeMatch(s, Tail(p)) \/ (s # <<>> /\ LikeMatch(Tail(s), p))
         ELSE /\ s # <<>>
              /\ (Head(p) = "_" \/ Head(p) = Head(s))
              /\ LikeMatch(Tail(s), Tail(p))

---------------------------------------------------------------------------
(* The query object *)

NewRecordQuery ==
    [ hasID                 |-> FALSE,
      id                    |-> <<>>,
      hasIDList             |-> FALSE,
      idList                |-> <<>>,
      isTypeSet             |-> FALSE,
      recordType            |-> "",
      columns               |-> <<>>,
      isCountOnly           |-> FALSE,
      isSoftDeletedIncluded |-> FALSE,
      isLimitSet            |-> FALSE,
      limit                 |-> 0,
      isOffsetSet           |-> FALSE,
      offset                |-> 0,
      isOrderBySet          |-> FALSE,
      orderBy               |-> "",
      payloadSearch         |-> <<>>,
      payloadSearchNot      |-> <<>> ]

SetColumns(o, columns) == [o EXCEPT !.columns = columns]

GetColumns(o) == o.columns

IsCountOnly(o) == o.isCountOnly

SetCountOnly(o, countOnly) == [o EXCEPT !.isCountOnly = countOnly]

IsIDSet(o) == o.hasID

GetID(o) == o.id

\* SetID that sets the flag whatever the id
SetID_FlagAlwaysSet(o, id) == [o EXCEPT !.hasID = TRUE, !.id = id]

SetID(o, id) == [o EXCEPT !.hasID = (id # <<>>), !.id = id]

IsIDListSet(o) == o.hasIDList

GetIDList(o) == o.idList

SetIDList(o, ids) == [o EXCEPT !.hasIDList = TRUE, !.idList = ids]

IsSoftDeletedIncluded(o) == o.isSoftDeletedIncluded

SetSoftDeletedIncluded(o, included) ==
    [o EXCEPT !.isSoftDeletedIncluded = included]

IsLimitSet(o) == o.isLimitSet

GetLimit(o) == o.limit

SetLimit(o, limit) == [o EXCEPT !.isLimitSet = TRUE, !.limit = limit]

IsOffsetSet(o) == o.isOffsetSet

GetOffset(o) == o.offset

SetOffset(o, offset) == [o EXCEPT !.isOffsetSet = TRUE, !.offset = offset]

IsOrderBySet(o) == o.isOrderBySet

GetOrderBy(o) == o.orderBy

SetOrderBy(o, orderBy) == [o EXCEPT !.isOrderBySet = TRUE, !.orderBy = orderBy]

IsTypeSet(o) == o.isTypeSet

GetType(o) == o.recordType

\* SetType that leaves the is-set flag alone
SetType_FlagNotSet(o, recordType) == [o EXCEPT !.recordType = recordType]

SetType(o, recordType) ==
    [o EXCEPT !.isTypeSet = TRUE, !.recordType = recordType]

AddPayloadSearch(o, needle) ==
    [o EXCEPT !.payloadSearch = Append(@, needle)]

GetPayloadSearch(o) == o.payloadSearch

AddPayloadSearchNot(o, needle) ==
    [o EXCEPT !.payloadSearchNot = Append(@, needle)]

GetPayloadSearchNot(o) == o.payloadSearchNot

---------------------------------------------------------------------------
(* Validation *)

\* Validate without the check for blank entries
Validate_NoBlankCheck(o) ==
    IF IsIDSet(o) /\ GetID(o) = <<>> THEN "id is required"
    ELSE IF IsIDListSet(o) /\ Len(GetIDList(o)) = 0 THEN "id list is required"
    ELSE IF IsTypeSet(o) /\ GetType(o) = "" THEN "type is required"
    ELSE NoError

Validate(o) ==
    IF IsIDSet(o) /\ GetID(o) = <<>> THEN "id is required"
    ELSE IF IsIDListSet(o) /\ Len(GetIDList(o)) = 0 THEN "id list is required"
    ELSE IF IsIDListSet(o)
            /\ Len(FilterNonBlank(GetIDList(o))) # Len(GetIDList(o))
         THEN "id list contains empty strings"
    ELSE IF IsTypeSet(o) /\ GetType(o) = "" THEN "type is required"
    ELSE NoError

---------------------------------------------------------------------------
(* goqu expressions and datasets, as the calls that build them *)

EqExpr(col, v) == [kind |-> "Eq", col |-> col, arg |-> v]

InExpr(col, vs) == [kind |-> "In", col |-> col, arg |-> vs]

GtExpr(col, v) == [kind |-> "Gt", col |-> col, arg |-> v]

LikeExpr(col, pattern) == [kind |-> "Like", col |-> col, arg |-> pattern]

NotLikeExpr(col, pattern) == [kind |-> "NotLike", col |-> col, arg |-> pattern]

OrExpr(exprs) == [kind |-> "Or", col |-> "", arg |-> exprs]

AndExpr(exprs) == [kind |-> "And", col |-> "", arg |-> exprs]

\* the nil *goqu.SelectDataset
NilDataset ==
    [isNil |-> TRUE, where |-> <<>>, limit |-> <<>>, offset |-> <<>>,
     order |-> <<>>]

\* goqu.Dialect(driver).From(table)
From == [NilDataset EXCEPT !.isNil = FALSE]

Where(ds, expr) == [ds EXCEPT !.where = Append(@, expr)]

Limit(ds, n) == [ds EXCEPT !.limit = <<n>>]

Offset(ds, n) == [ds EXCEPT !.offset = <<n>>]

Order(ds, col, dir) == [ds EXCEPT !.order = Append(@, [col |-> col, dir |-> dir])]

\* whether a row satisfies an expression
RECURSIVE EvalExpr(_, _)
EvalExpr(e, row) ==
    CASE e.kind = "Eq" -> row[e.col] = e.arg
      [] e.kind = "In" -> \E i \in DOMAIN e.arg : row[e.col] = e.arg[i]
      [] e.kind = "Gt" -> row[e.col] > e.arg
      [] e.kind = "Like" -> LikeMatch(row[e.col], e.arg)
      [] e.kind = "NotLike" -> ~LikeMatch(row[e.col], e.arg)
      [] e.kind = "Or" -> \E i \in DOMAIN e.arg : EvalExpr(e.arg[i], row)
      [] e.kind = "And" -> \A i \in DOMAIN e.arg : EvalExpr(e.arg[i], row)

\* the WHERE clause of a dataset: the conjunction of its Where calls
Matches(ds, row) == \A i \in DOMAIN ds.where : EvalExpr(ds.where[i], row)

---------------------------------------------------------------------------
(* The statement compiler *)

\* the "%"+v+"%" pattern of one needle
ContainsPattern(v) == <<"%">> \o v \o <<"%">>

applyPayloadWhere(o, ds) ==
    LET ors == [i \in DOMAIN o.payloadSearch |->
                    LikeExpr(COLUMN_PAYLOAD, ContainsPattern(o.payloadSearch[i]))]
        nots == [i \in DOMAIN o.payloadSearchNot |->
                    NotLikeExpr(COLUMN_PAYLOAD, ContainsPattern(o.payloadSearchNot[i]))]
        conds == (IF Len(o.payloadSearch) > 0 THEN <<OrExpr(ors)>> ELSE <<>>)
                 \o (IF Len(o.payloadSearchNot) > 0 THEN nots ELSE <<>>)
    IN  IF Len(conds) = 0 THEN ds ELSE Where(ds, AndExpr(conds))

\* returns the dataset and the query, whose limit the call may set
\* applyPagination that returns for a count-only query before anything else
applyPagination_CountOnlyFirst(o, ds) ==
    IF IsCountOnly(o) THEN [o |-> o, ds |-> ds]
    ELSE LET o1 == IF IsOffsetSet(o) /\ ~IsLimitSet(o)
                   THEN SetLimit(o, DefaultLimit) ELSE o
             d1 == IF IsLimitSet(o1) THEN Limit(ds, GetLimit(o1)) ELSE ds
             d2 == IF IsOffsetSet(o1) THEN Offset(d1, GetOffset(o1)) ELSE d1
         IN  [o |-> o1, ds |-> d2]

applyPagination(o, ds) ==
    LET o1 == IF IsOffsetSet(o) /\ ~IsLimitSet(o) THEN SetLimit(o, DefaultLimit) ELSE o
        d1 == IF IsLimitSet(o1) THEN Limit(ds, GetLimit(o1)) ELSE ds
        d2 == IF IsOffsetSet(o1) THEN Offset(d1, GetOffset(o1)) ELSE d1
    IN  [o |-> o1, ds |-> IF IsCountOnly(o1) THEN ds ELSE d2]

applyOrderBy(o, ds, defaultOrder) ==
    IF ~IsOrderBySet(o) THEN ds
    ELSE IF EqualFold(defaultOrder, ASC) THEN Order(ds, GetOrderBy(o), ASC)
    ELSE Order(ds, GetOrderBy(o), DESC)

selectedColumns(o) == GetColumns(o)

\* softDeletedExpr that compares with the zero time instead of the clock
softDeletedExpr_ZeroTime(t) == GtExpr(COLUMN_SOFT_DELETED_AT, 0)

\* softDeletedExpr with >= in place of >
softDeletedExpr_Inclusive(t) == GtExpr(COLUMN_SOFT_DELETED_AT, t - 1)

softDeletedExpr(t) == GtExpr(COLUMN_SOFT_DELETED_AT, t)

\* the error return of ToSelectDataset (lines 109-111)
failed(o, err) ==
    [dataset |-> NilDataset, columns |-> <<>>, err |-> err, o |-> o]

\* the soft-deleted-included return of ToSelectDataset (lines 113-117)
softDeletedRequested(o) ==
    [dataset |-> From, columns |-> <<>>, err |-> NoError, o |-> o]

\* the rest of ToSelectDataset (lines 113, 119-150) at clock reading t
filtered(o, t) ==
    LET d0 == From
        d1 == IF IsIDSet(o) THEN Where(d0, EqExpr(COLUMN_ID, GetID(o))) ELSE d0
        ids == FilterNonBlank(GetIDList(o))
        d2 == IF IsIDListSet(o) /\ Len(ids) > 0
              THEN Where(d1, InExpr(COLUMN_ID, ids))
              ELSE d1
        d3 == applyPayloadWhere(o, d2)
        pg == applyPagination(o, d3)
        d5 == applyOrderBy(pg.o, pg.ds, DESC)
        d6 == IF IsTypeSet(pg.o)
              THEN Where(d5, EqExpr(COLUMN_RECORD_TYPE, GetType(pg.o)))
              ELSE d5
    IN  [dataset |-> Where(d6, softDeletedExpr(t)),
         columns |-> selectedColumns(pg.o), err |-> NoError, o |-> pg.o]

\* ToSelectDataset that looks at soft-deleted-included before it validates
ToSelectDataset_SoftDeletedFirst(o, t) ==
    IF IsSoftDeletedIncluded(o) THEN softDeletedRequested(o)
    ELSE IF Validate(o) # NoError THEN failed(o, Validate(o))
    ELSE filtered(o, t)

\* ToSelectDataset at clock reading t: the dataset, the columns and the error
\* returned, and the query as the call leaves it
ToSelectDataset(o, t) ==
    IF Validate(o) # NoError THEN failed(o, Validate(o))
    ELSE IF IsSoftDeletedIncluded(o) THEN softDeletedRequested(o)
    ELSE filtered(o, t)

---------------------------------------------------------------------------
(* Records and the record options *)

\* options applied to one record
MaxOptions == 2

\* Go values of a payload map: a Go type and the value's literal
GoInt(lit) == [go |-> "int", v |-> lit]

GoFloat64(lit) == [go |-> "float64", v |-> lit]

GoString(lit) == [go |-> "string", v |-> lit]

\* the order in which encoding/json writes the keys of a map (sorted)
KeyOrder == <<"k1", "k2", "x", "y">>

\* json.Marshal of a map with string keys: the members of the JSON object in
\* key order, numbers and strings as JSON writes them
JSONMarshal(m) ==
    LET ks == SelectSeq(KeyOrder, LAMBDA k : k \in DOMAIN m)
    IN  [i \in DOMAIN ks |->
            [key |-> ks[i],
             json |-> IF m[ks[i]].go = "string" THEN "string" ELSE "number",
             lit |-> m[ks[i]].v]]

\* json.Unmarshal of a JSON object into map[string]any: every number
\* becomes a float64
JSONUnmarshal(doc) ==
    [k \in {doc[i].key : i \in DOMAIN doc} |->
        LET e == CHOOSE e \in {doc[i] : i \in DOMAIN doc} : e.key = k
        IN  IF e.json = "string" THEN GoString(e.lit) ELSE GoFloat64(e.lit)]

\* a text column: a raw string, or the JSON text of an object
RawText(str) == [kind |-> "raw", raw |-> str, doc |-> <<>>]

JSONText(doc) == [kind |-> "json", raw |-> "", doc |-> doc]

\* no record built yet
NoRecord ==
    [isNil |-> TRUE, type |-> "", id |-> "", memo |-> "",
     payload |-> RawText(""), metas |-> RawText("")]

Record_SetID(r, id) == [r EXCEPT !.id = id]

Record_ID(r) == r.id

Record_SetMemo(r, memo) == [r EXCEPT !.memo = memo]

Record_Memo(r) == r.memo

Record_SetPayload(r, payload) == [r EXCEPT !.payload = RawText(payload)]

Record_Payload(r) == r.payload

Record_SetPayloadMap(r, payloadMap) ==
    [r EXCEPT !.payload = JSONText(JSONMarshal(payloadMap))]

Record_PayloadMap(r) == JSONUnmarshal(r.payload.doc)

Record_SetMetas(r, metas) ==
    [r EXCEPT !.metas =
        JSONText(JSONMarshal([k \in DOMAIN metas |-> GoString(metas[k])]))]

Record_Metas(r) ==
    LET m == JSONUnmarshal(r.metas.doc) IN [k \in DOMAIN m |-> m[k].v]

\* the functional options, each applied to record r
WithID(r, id) == Record_SetID(r, id)

\* WithMemo that sets the id
WithMemo_SetsID(r, memo) == Record_SetID(r, memo)

WithMemo(r, memo) == Record_SetMemo(r, memo)

WithMetas(r, metas) == Record_SetMetas(r, metas)

WithPayload(r, payload) == Record_SetPayload(r, payload)

WithPayloadMap(r, payloadMap) == Record_SetPayloadMap(r, payloadMap)

\* opt(r) for an option given by name and argument
ApplyOption(r, opt) ==
    CASE opt.name = "WithID" -> WithID(r, opt.str)
      [] opt.name = "WithMemo" -> WithMemo(r, opt.str)
      [] opt.name = "WithMetas" -> WithMetas(r, opt.metas)
      [] opt.name = "WithPayload" -> WithPayload(r, opt.str)
      [] opt.name = "WithPayloadMap" -> WithPayloadMap(r, opt.payloadMap)

RECURSIVE ApplyOptions(_, _)
ApplyOptions(r, opts) ==
    IF opts = <<>> THEN r
    ELSE ApplyOptions(ApplyOption(r, Head(opts)), Tail(opts))

\* NewRecord(recordType, opts...), uid being the id generated for it
NewRecord(recordType, uid, opts) ==
    ApplyOptions([NoRecord EXCEPT !.isNil = FALSE, !.type = recordType, !.id = uid],
                 opts)

---------------------------------------------------------------------------
(* The state machine of one query: setter calls, Validate, ToSelectDataset *)

NoResult ==
    [op |-> "none", err |-> NoError, dataset |-> NilDataset, columns |-> <<>>,
     rows |-> {}, count |-> 0]

\* nothing passed yet: each field holds the arguments of the calls so far
\* (id, idList, type: the last argument, if any; limit: whether SetLimit was
\* called)
NoHistory == [id |-> <<>>, idList |-> <<>>, type |-> <<>>, limit |-> FALSE]

Init ==
    /\ q = NewRecordQuery
    /\ last = NoResult
    /\ now = 0
    /\ calls = 0
    /\ hist = NoHistory
    /\ table = {}
    /\ softDeleted = {}
    /\ hardDeleted = {}
    /\ record = NoRecord
    /\ applied = <<>>

\* a setter call leaves q as `o`
Setter(o) ==
    /\ calls < MaxCalls
    /\ q' = o
    /\ calls' = calls + 1
    /\ last' = NoResult
    /\ UNCHANGED <<now, table, softDeleted, hardDeleted, record, applied>>

CallSetColumns ==
    \E c \in ColumnValues : Setter(SetColumns(q, c)) /\ UNCHANGED hist

CallSetCountOnly ==
    \E b \in BOOLEAN : Setter(SetCountOnly(q, b)) /\ UNCHANGED hist

CallSetID ==
    \E id \in IdValues :
        Setter(SetID(q, id)) /\ hist' = [hist EXCEPT !.id = <<id>>]

CallSetIDList ==
    \E ids \in IdListValues :
        Setter(SetIDList(q, ids)) /\ hist' = [hist EXCEPT !.idList = <<ids>>]

CallSetSoftDeletedIncluded ==
    \E b \in BOOLEAN : Setter(SetSoftDeletedIncluded(q, b)) /\ UNCHANGED hist

CallSetLimit ==
    \E n \in LimitValues :
        Setter(SetLimit(q, n)) /\ hist' = [hist EXCEPT !.limit = TRUE]

CallSetOffset ==
    \E n \in OffsetValues : Setter(SetOffset(q, n)) /\ UNCHANGED hist

CallSetOrderBy ==
    \E c \in OrderByValues : Setter(SetOrderBy(q, c)) /\ UNCHANGED hist

CallSetType ==
    \E t \in TypeValues :
        Setter(SetType(q, t)) /\ hist' = [hist EXCEPT !.type = <<t>>]

CallAddPayloadSearch ==
    \E v \in NeedleValues : Setter(AddPayloadSearch(q, v)) /\ UNCHANGED hist

CallAddPayloadSearchNot ==
    \E v \in NeedleValues : Setter(AddPayloadSearchNot(q, v)) /\ UNCHANGED hist

CallValidate ==
    /\ last' = [NoResult EXCEPT !.op = "Validate", !.err = Validate(q)]
    /\ UNCHANGED <<q, now, calls, hist, table, softDeleted, hardDeleted, record, applied>>

CallToSelectDataset ==
    LET r == ToSelectDataset(q, now)
    IN  /\ q' = r.o
        /\ last' = [NoResult EXCEPT !.op = "ToSelectDataset", !.err = r.err,
                                    !.dataset = r.dataset, !.columns = r.columns]
        /\ UNCHANGED <<now, calls, hist, table, softDeleted, hardDeleted, record, applied>>

\* the clock advances
Tick ==
    /\ now < MaxTime
    /\ now' = now + 1
    /\ last' = NoResult
    /\ UNCHANGED <<q, calls, hist, table, softDeleted, hardDeleted, record, applied>>

Next ==
    \/ CallSetColumns
    \/ CallSetCountOnly
    \/ CallSetID
    \/ CallSetIDList
    \/ CallSetSoftDeletedIncluded
    \/ CallSetLimit
    \/ CallSetOffset
    \/ CallSetOrderBy
    \/ CallSetType
    \/ CallAddPayloadSearch
    \/ CallAddPayloadSearchNot
    \/ CallValidate
    \/ CallToSelectDataset
    \/ Tick

Spec == Init /\ [][Next]_vars

---------------------------------------------------------------------------
(* The store: the records table and the operations on it *)

StoreIds == {<<"a">>, <<"b">>}

StoreTypes == {"person", "task"}

StorePayloads == {<<"a">>, <<"b">>}

Row(id, type, payload, softDeletedAt) ==
    [id |-> id, record_type |-> type, payload |-> payload,
     soft_deleted_at |-> softDeletedAt]

\* the queries callers hand to RecordList and RecordCount
StoreQueryShapes ==
    { NewRecordQuery,
      SetType(NewRecordQuery, "person"),
      SetID(NewRecordQuery, <<"a">>),
      SetIDList(SetType(NewRecordQuery, "task"), << <<"a">>, <<"b">> >>) }

StoreQueries ==
    StoreQueryShapes \cup {SetSoftDeletedIncluded(o, TRUE) : o \in StoreQueryShapes}

\* the rows a dataset without LIMIT and OFFSET selects
Select(ds, rows) == {row \in rows : Matches(ds, row)}

StoreStep ==
    /\ last' = NoResult
    /\ UNCHANGED <<q, now, calls, hist, record, applied>>

RecordCreate ==
    \E id \in StoreIds, type \in StoreTypes, payload \in StorePayloads :
        /\ \A row \in table : row.id # id
        /\ table' = table \cup {Row(id, type, payload, MAX_DATETIME)}
        /\ softDeleted' = softDeleted \ {id}
        /\ hardDeleted' = hardDeleted \ {id}
        /\ StoreStep

RecordUpdate ==
    \E row \in table, payload \in StorePayloads :
        /\ payload # row.payload
        /\ table' = (table \ {row}) \cup {[row EXCEPT !.payload = payload]}
        /\ UNCHANGED <<softDeleted, hardDeleted>>
        /\ StoreStep

RecordSoftDelete ==
    \E row \in table :
        /\ table' = (table \ {row}) \cup {[row EXCEPT !.soft_deleted_at = now]}
        /\ softDeleted' = softDeleted \cup {row.id}
        /\ UNCHANGED hardDeleted
        /\ StoreStep

RecordDelete ==
    \E row \in table :
        /\ table' = table \ {row}
        /\ softDeleted' = softDeleted \ {row.id}
        /\ hardDeleted' = hardDeleted \cup {row.id}
        /\ StoreStep

\* runs query o as compiled by ToSelectDataset; `op` names the caller
RunQuery(op, o) ==
    LET r == ToSelectDataset(o, now)
        rows == IF r.err = NoError THEN Select(r.dataset, table) ELSE {}
    IN  /\ q' = r.o
        /\ last' = [op |-> op, err |-> r.err, dataset |-> r.dataset,
                    columns |-> r.columns, rows |-> rows,
                    count |-> Cardinality(rows)]
        /\ UNCHANGED <<now, calls, hist, table, softDeleted, hardDeleted, record, applied>>

RecordList == \E o \in StoreQueries : RunQuery("RecordList", o)

RecordCount == \E o \in StoreQueries : RunQuery("RecordCount", SetCountOnly(o, TRUE))

StoreTick ==
    /\ now < MaxTime
    /\ now' = now + 1
    /\ last' = NoResult
    /\ UNCHANGED <<q, calls, hist, table, softDeleted, hardDeleted, record, applied>>

StoreNext ==
    \/ RecordCreate
    \/ RecordUpdate
    \/ RecordSoftDelete
    \/ RecordDelete
    \/ RecordList
    \/ RecordCount
    \/ StoreTick

StoreSpec == Init /\ [][StoreNext]_vars

---------------------------------------------------------------------------
(* Building records: NewRecord with options, and options applied afterwards *)

RecordTypeValues == {"test", "person"}

GeneratedIds == {"uid-1", "uid-2"}

StringArgs == {"", "my-id-123"}

MetasArgs ==
    { <<>>,
      [k \in {"k1"} |-> "v1"],
      [k \in {"k1", "k2"} |-> IF k = "k1" THEN "v1" ELSE "v2"] }

PayloadMapArgs ==
    { <<>>,
      [k \in {"y"} |-> GoString("yes")],
      [k \in {"x"} |-> GoFloat64("9")],
      [k \in {"x", "y"} |-> IF k = "x" THEN GoInt("9") ELSE GoString("yes")] }

\* an option: its name and its argument, in the field of the argument's type
Option(name, str, metas, payloadMap) ==
    [name |-> name, str |-> str, metas |-> metas, payloadMap |-> payloadMap]

Options ==
    {Option(n, a, <<>>, <<>>) : n \in {"WithID", "WithMemo", "WithPayload"}, a \in StringArgs}
    \cup {Option("WithMetas", "", a, <<>>) : a \in MetasArgs}
    \cup {Option("WithPayloadMap", "", <<>>, a) : a \in PayloadMapArgs}

RecordStep == UNCHANGED <<q, last, now, calls, hist, table, softDeleted, hardDeleted>>

\* NewRecord(type) and NewRecord(type, opt)
CallNewRecord ==
    \E type \in RecordTypeValues, uid \in GeneratedIds,
       opts \in {<<>>} \cup {<<opt>> : opt \in Options} :
        /\ record' = NewRecord(type, uid, opts)
        /\ applied' = opts
        /\ RecordStep

\* opt(record) after construction
CallOption ==
    \E opt \in Options :
        /\ ~record.isNil
        /\ Len(applied) < MaxOptions
        /\ record' = ApplyOption(record, opt)
        /\ applied' = Append(applied, opt)
        /\ RecordStep

RecordNext ==
    \/ CallNewRecord
    \/ CallOption

RecordSpec == Init /\ [][RecordNext]_vars

---------------------------------------------------------------------------
(* Vocabulary of the properties *)

\* every row a table can hold, over the values of the model
RowUniverse ==
    { Row(id, type, payload, at) :
        id \in IdValues, type \in StoreTypes, payload \in PayloadValues,
        at \in 0..MAX_DATETIME }

\* the last call was ToSelectDataset and it returned a statement
Compiled == last.op = "ToSelectDataset" /\ last.err = NoError

\* sub occurs in s as a substring
Contains(s, sub) ==
    \E i \in 0..(Len(s) - Len(sub)) : SubSeq(s, i + 1, i + Len(sub)) = sub

\* empty or whitespace only
IsBlank(id) == \A i \in DOMAIN id : id[i] \in Whitespace

Member(x, seq) == \E i \in DOMAIN seq : seq[i] = x

\* the predicates of a dataset on one column, and those of one kind
OnColumn(ds, col) == {i \in DOMAIN ds.where : ds.where[i].col = col}

OfKind(ds, kind) == {i \in DOMAIN ds.where : ds.where[i].kind = kind}

\* the row satisfies every predicate of the dataset but those on column col
MatchesExcept(ds, col, row) ==
    \A i \in DOMAIN ds.where \ OnColumn(ds, col) : EvalExpr(ds.where[i], row)

---------------------------------------------------------------------------
(* C1 *)

\* C1: with soft-deleted included, ToSelectDataset returns the statement and
\* the column list it returns for the same query without it, less the
\* soft-delete predicate: the same rows pass the remaining predicates, and
\* limit, offset, order and columns are the same.
C1_SoftDeletedIncludedKeepsOtherCriteria ==
    (Compiled /\ IsSoftDeletedIncluded(q)) =>
        LET ref == ToSelectDataset(SetSoftDeletedIncluded(q, FALSE), now)
        IN  /\ ref.err = NoError
            /\ \A row \in RowUniverse :
                   Matches(last.dataset, row)
                       <=> MatchesExcept(ref.dataset, COLUMN_SOFT_DELETED_AT, row)
            /\ last.dataset.limit = ref.dataset.limit
            /\ last.dataset.offset = ref.dataset.offset
            /\ last.dataset.order = ref.dataset.order
            /\ last.columns = ref.columns

---------------------------------------------------------------------------
(* C2 *)

\* C2: a statement compiled without soft-deleted included selects no row
\* whose soft-delete timestamp is earlier than the clock at compilation, and
\* its predicates on the soft-delete column accept every row that carries
\* the far-future sentinel.
C2_DefaultQueryHidesPastSoftDeleted ==
    (Compiled /\ ~IsSoftDeletedIncluded(q)) =>
        \A row \in RowUniverse :
            /\ row.soft_deleted_at < now => ~Matches(last.dataset, row)
            /\ row.soft_deleted_at = MAX_DATETIME =>
                   \A i \in OnColumn(last.dataset, COLUMN_SOFT_DELETED_AT) :
                       EvalExpr(last.dataset.where[i], row)

C2_Witness ==
    /\ Compiled
    /\ ~IsSoftDeletedIncluded(q)
    /\ IsTypeSet(q)
    /\ IsIDSet(q)
    /\ now > 0

---------------------------------------------------------------------------
(* C3 *)

\* the queries of C3: a type and an id list, nothing else that filters or pages
C3_Query ==
    /\ ~IsSoftDeletedIncluded(q)
    /\ hist.type # <<>>
    /\ hist.idList # <<>>
    /\ ~IsIDSet(q)
    /\ GetPayloadSearch(q) = <<>>
    /\ GetPayloadSearchNot(q) = <<>>
    /\ ~IsLimitSet(q)
    /\ ~IsOffsetSet(q)

\* C3: for a query with type T and id list L and no other filter, the
\* compiled statement has no LIMIT or OFFSET and selects exactly the rows
\* whose id is in L, whose type is T and whose soft-delete timestamp is
\* later than the clock.
C3_TypeAndIDListSelectExactly ==
    (Compiled /\ C3_Query) =>
        /\ last.dataset.limit = <<>>
        /\ last.dataset.offset = <<>>
        /\ \A row \in RowUniverse :
               Matches(last.dataset, row)
                   <=> /\ Member(row.id, hist.idList[1])
                       /\ row.record_type = hist.type[1]
                       /\ row.soft_deleted_at > now

C3_Witness ==
    /\ Compiled
    /\ C3_Query
    /\ Len(hist.idList[1]) = 2
    /\ now > 0

---------------------------------------------------------------------------
(* C4 and C5 *)

\* the list last passed to SetIDList mixes blank and non-blank entries
MixedIDList ==
    /\ hist.idList # <<>>
    /\ \E i \in DOMAIN hist.idList[1] : IsBlank(hist.idList[1][i])
    /\ \E i \in DOMAIN hist.idList[1] : ~IsBlank(hist.idList[1][i])

\* the list last passed to SetIDList has a blank entry
SomeBlankInIDList ==
    /\ hist.idList # <<>>
    /\ \E i \in DOMAIN hist.idList[1] : IsBlank(hist.idList[1][i])

EmptyIDList == hist.idList = << <<>> >>

IDListErrors == {"id list is required", "id list contains empty strings"}

C5_IDListIgnoresBlanks ==
    (last.op = "ToSelectDataset" /\ (EmptyIDList \/ SomeBlankInIDList)) =>
        /\ last.err = NoError
        /\ \A i \in OfKind(last.dataset, "In") :
               \A j \in DOMAIN last.dataset.where[i].arg :
                   ~IsBlank(last.dataset.where[i].arg[j])
        /\ ~MixedIDList => OfKind(last.dataset, "In") = {}

---------------------------------------------------------------------------
(* C6 *)

\* C6: a statement compiled from a query that is not count-only, has an
\* offset and on which the caller set no limit carries LIMIT 10 and the
\* offset requested.
C6_OffsetWithoutLimitGetsDefaultLimit ==
    (Compiled /\ ~IsCountOnly(q) /\ IsOffsetSet(q) /\ ~hist.limit) =>
        /\ last.dataset.limit = <<10>>
        /\ last.dataset.offset = <<GetOffset(q)>>

---------------------------------------------------------------------------
(* C7 *)

\* the row satisfies the payload predicates of the dataset
PassesPayloadFilter(ds, row) ==
    \A i \in DOMAIN ds.where :
        ds.where[i].kind \in {"And", "Or", "Like", "NotLike"}
            => EvalExpr(ds.where[i], row)

\* C7: with must-contain list S and must-not-contain list N, a row passes
\* the payload predicates of the compiled statement iff (S is empty or the
\* payload has a member of S as a substring) and the payload has no member
\* of N as a substring; with both empty there is no payload predicate.
C7_PayloadFilterIsSubstringSearch ==
    (Compiled /\ ~IsSoftDeletedIncluded(q)) =>
        LET S == GetPayloadSearch(q)
            N == GetPayloadSearchNot(q)
        IN  /\ \A row \in RowUniverse :
                   PassesPayloadFilter(last.dataset, row)
                       <=> /\ S = <<>> \/ \E i \in DOMAIN S : Contains(row.payload, S[i])
                           /\ \A i \in DOMAIN N : ~Contains(row.payload, N[i])
            /\ (S = <<>> /\ N = <<>>) =>
                   OfKind(last.dataset, "And") \cup OnColumn(last.dataset, COLUMN_PAYLOAD) = {}

---------------------------------------------------------------------------
(* C8 *)

\* the row passes the id, id-list and type criteria of query o
FiltersAccept(o, row) ==
    /\ IsIDSet(o) => row.id = GetID(o)
    /\ IsIDListSet(o) => Member(row.id, GetIDList(o))
    /\ IsTypeSet(o) => row.record_type = GetType(o)

Listed == last.op \in {"RecordList", "RecordCount"} /\ last.err = NoError

\* C8: RecordList and RecordCount without soft-deleted included never return
\* (count) a record soft-deleted since its creation; with soft-deleted
\* included they return every such record that passes the query's other
\* criteria; neither returns a record that was hard-deleted.
C8_SoftAndHardDeleteVisibility ==
    Listed =>
        /\ ~IsSoftDeletedIncluded(q) =>
               \A row \in last.rows : row.id \notin softDeleted
        /\ IsSoftDeletedIncluded(q) =>
               \A row \in table :
                   (row.id \in softDeleted /\ FiltersAccept(q, row))
                       => row \in last.rows
        /\ \A row \in last.rows : row.id \notin hardDeleted
        /\ last.count = Cardinality(last.rows)

C8_Witness ==
    /\ Listed
    /\ ~IsSoftDeletedIncluded(q)
    /\ hardDeleted # {}
    /\ \E row \in table :
           /\ row.id \in softDeleted
           /\ FiltersAccept(q, row)
           /\ row.soft_deleted_at < now

---------------------------------------------------------------------------
(* C9 *)

\* the id = value predicates of a dataset
IDPredicates(ds) == OfKind(ds, "Eq") \cap OnColumn(ds, COLUMN_ID)

\* C9: when the last SetID call passed "", IsIDSet is false, neither
\* Validate nor ToSelectDataset returns "id is required" and a compiled
\* statement has no id = value predicate; when it passed a non-empty value
\* v, IsIDSet is true and a compiled statement has exactly one id = value
\* predicate, with value v.
C9_SetIDClearsOrSetsTheIDFilter ==
    /\ hist.id = << <<>> >> =>
           /\ ~IsIDSet(q)
           /\ last.err # "id is required"
           /\ Compiled => IDPredicates(last.dataset) = {}
    /\ (hist.id # <<>> /\ hist.id # << <<>> >>) =>
           /\ IsIDSet(q)
           /\ Compiled =>
                  /\ Cardinality(IDPredicates(last.dataset)) = 1
                  /\ \A i \in IDPredicates(last.dataset) :
                         last.dataset.where[i].arg = hist.id[1]

---------------------------------------------------------------------------
(* C10 *)

\* C10: when Validate fails for the query, ToSelectDataset returns
\* Validate's error, the nil statement and an empty column list; when
\* ToSelectDataset returns no error the statement is not nil.
C10_ValidatesBeforeBuilding ==
    last.op = "ToSelectDataset" =>
        /\ Validate(q) # NoError =>
               /\ last.err = Validate(q)
               /\ last.dataset = NilDataset
               /\ last.columns = <<>>
        /\ last.err = NoError => ~last.dataset.isNil

C10_Witness ==
    /\ last.op = "ToSelectDataset"
    /\ last.err = "type is required"
    /\ IsSoftDeletedIncluded(q)
    /\ IsCountOnly(q)

---------------------------------------------------------------------------
(* C11 *)

\* the position in `applied` of the last option named in names, 0 if none
LastOption(names) ==
    LET is == {i \in DOMAIN applied : applied[i].name \in names}
    IN  IF is = {} THEN 0 ELSE CHOOSE i \in is : \A j \in is : j <= i

PayloadOptions == {"WithPayload", "WithPayloadMap"}

\* what the string and metas options promise, and WithPayload when it is the
\* last option to set the payload
C11_StringAndMetasOptions ==
    /\ LastOption({"WithID"}) > 0 =>
           Record_ID(record) = applied[LastOption({"WithID"})].str
    /\ LastOption({"WithMemo"}) > 0 =>
           Record_Memo(record) = applied[LastOption({"WithMemo"})].str
    /\ LastOption({"WithMetas"}) > 0 =>
           Record_Metas(record) = applied[LastOption({"WithMetas"})].metas
    /\ (LastOption(PayloadOptions) > 0
        /\ applied[LastOption(PayloadOptions)].name = "WithPayload") =>
           Record_Payload(record) = RawText(applied[LastOption(PayloadOptions)].str)

\* the last option to set the payload is WithPayloadMap
PayloadMapApplied ==
    /\ LastOption(PayloadOptions) > 0
    /\ applied[LastOption(PayloadOptions)].name = "WithPayloadMap"

\* p as decoding its JSON encoding gives it: numbers are float64
AsDecoded(p) ==
    [k \in DOMAIN p |-> IF p[k].go = "string" THEN p[k] ELSE GoFloat64(p[k].v)]

\* C11 as stated: each option sets its field to the value given, and after
\* WithPayloadMap(p) PayloadMap() returns a map equal to p.
C11_OptionsSetTheirFields ==
    /\ C11_StringAndMetasOptions
    /\ PayloadMapApplied =>
           Record_PayloadMap(record) = applied[LastOption(PayloadOptions)].payloadMap

\* C11 as amended: each option sets its field to the value given, WithMetas
\* overwriting earlier metas, and after WithPayloadMap(p) PayloadMap()
\* returns p with the same keys and strings and every number as a float64.
C11_OptionsSetTheirFieldsUpToJSON ==
    /\ C11_StringAndMetasOptions
    /\ PayloadMapApplied =>
           Record_PayloadMap(record)
               = AsDecoded(applied[LastOption(PayloadOptions)].payloadMap)

C11_Witness ==
    /\ Len(applied) = 2
    /\ applied[1].name = "WithMetas"
    /\ applied[2].name = "WithPayloadMap"
    /\ \E k \in DOMAIN applied[2].payloadMap : applied[2].payloadMap[k].go = "int"
    /\ ~record.isNil

---------------------------------------------------------------------------
(* C12 *)

\* the soft-delete predicate of the dataset rejects the row
HiddenBySoftDelete(ds, row) ==
    \E i \in OnColumn(ds, COLUMN_SOFT_DELETED_AT) : ~EvalExpr(ds.where[i], row)

\* C12 as stated: the soft-delete predicate of a default query hides a row
\* iff its soft-delete timestamp is strictly earlier than the clock; a row
\* whose timestamp equals the clock is not hidden.
C12_HiddenIffStrictlyPast ==
    (Compiled /\ ~q.isSoftDeletedIncluded) =>
        \A row \in RowUniverse :
            HiddenBySoftDelete(last.dataset, row) <=> row.soft_deleted_at < now

\* C12 as amended: the soft-delete predicate of a default query hides a row
\* iff its soft-delete timestamp is earlier than or equal to the clock; a
\* row whose timestamp equals the clock is hidden.
C12_HiddenIffNotFuture ==
    (Compiled /\ ~q.isSoftDeletedIncluded) =>
        \A row \in RowUniverse :
            HiddenBySoftDelete(last.dataset, row) <=> row.soft_deleted_at <= now

C12_Witness ==
    /\ Compiled
    /\ ~q.isSoftDeletedIncluded
    /\ now = 1
    /\ \E row \in RowUniverse :
           row.soft_deleted_at = now /\ HiddenBySoftDelete(last.dataset, row)

---------------------------------------------------------------------------
(* C13 *)

ValidationErrors ==
    {"id list is required", "id list contains empty strings", "type is required"}

\* C13: IsIDSet implies a non-empty GetID; Validate and ToSelectDataset
\* never return "id is required"; the error they return is the first that
\* applies of "id list is required" (id list set and empty), "id list
\* contains empty strings" (id list set with a blank entry) and "type is
\* required" (type set and empty), and none when none applies.
C13_OnlyThreeValidationErrorsInOrder ==
    /\ q.hasID => q.id # <<>>
    /\ last.err # "id is required"
    /\ last.op \in {"Validate", "ToSelectDataset"} =>
           last.err =
               IF q.hasIDList /\ q.idList = <<>> THEN "id list is required"
               ELSE IF q.hasIDList /\ \E i \in DOMAIN q.idList : IsBlank(q.idList[i])
                    THEN "id list contains empty strings"
               ELSE IF q.isTypeSet /\ q.recordType = "" THEN "type is required"
               ELSE NoError

C13_Witness ==
    /\ last.op = "Validate"
    /\ hist.id = << <<>> >>
    /\ SomeBlankInIDList
    /\ hist.type = <<"">>
    /\ last.err = "id list contains empty strings"

---------------------------------------------------------------------------
(* C14 *)

\* ToSelectDataset called on query o writes the default limit
WritesDefaultLimit(o) ==
    /\ Validate(o) = NoError
    /\ ~o.isSoftDeletedIncluded
    /\ o.isOffsetSet
    /\ ~o.isLimitSet

\* C14: a Validate call leaves the query as it was; a ToSelectDataset call
\* sets limit to 10 and marks it set when validation passes, soft-deleted is
\* not included, an offset is set and no limit is set (count-only or not),
\* and otherwise leaves the query as it was; a ToSelectDataset call that
\* follows another on the same query returns the same statement and columns.
C14_Step ==
    /\ last'.op = "Validate" => q' = q
    /\ last'.op = "ToSelectDataset" =>
           q' = IF WritesDefaultLimit(q)
                THEN [q EXCEPT !.isLimitSet = TRUE, !.limit = 10]
                ELSE q
    /\ (last.op = "ToSelectDataset" /\ last'.op = "ToSelectDataset") =>
           /\ last'.err = last.err
           /\ last'.dataset = last.dataset
           /\ last'.columns = last.columns

C14_CompilationOnlyWritesDefaultLimit == [][C14_Step]_vars

C14_Witness ==
    /\ last.op = "ToSelectDataset"
    /\ last.err = NoError
    /\ q.isCountOnly
    /\ ~hist.limit
    /\ q.isLimitSet
    /\ q.limit = 10
    /\ last.dataset.limit = <<>>

=============================================================================
